---- MODULE Spec2Model ----
(***************************************************************************)
(* Model of runscripts/debug/compare_pickles.py: the object-tree           *)
(* materializer (object_tree), the tree differ (diff_trees) and their      *)
(* helpers (is_leaf, all_vars, elide, compare_floats, compare_ndarrays),   *)
(* the size profiler (size_tree), and the report and command line          *)
(* (pprint_diffs, diff_files, list_pickles, diff_dirs, __main__).          *)
(*                                                                         *)
(* A Python value is a record                                              *)
(*   [t: runtime type name, n: numeric payload, s: text payload,           *)
(*    kids: sequence elements, m: mapping entries / __dict__,              *)
(*    sl: __slots__ entries]                                               *)
(* so that every value has the same fields and values of different kinds   *)
(* can be compared.                                                        *)
(***************************************************************************)
EXTENDS Integers, Sequences, FiniteSets, TLC

VARIABLES
  va, vb,      \* the loaded operands (the positional arguments o, obj, a, b)
  call,        \* the position in the run: what was called last
  ret,         \* the value returned by the last call
  max_len,     \* the max_len argument of elide
  stack,       \* the pending recursive calls of object_tree (an object
               \* each) or of diff_trees (a pair and its depth each)
  calls,       \* diff_trees: the number of calls made so far
  depth,       \* diff_trees: the deepest level of recursion reached so far
  printed,     \* diff_trees: the number of diagnostics printed so far
  cutoff,      \* the cutoff argument of size_tree, in hundredths of a MB
  dir1, dir2,  \* the two directories: file name -> unpickled content
  exit_code    \* the argument of sys.exit, -1 while the process runs

vars ==
  <<va, vb, call, ret, max_len, stack, calls, depth, printed, cutoff, dir1,
    dir2, exit_code>>

\* the variables of the traversal of one object graph, of the size profiler
\* and of the command line
walkVars == <<stack, calls, depth, printed>>
sizeVars == <<cutoff>>
mainVars == <<dir1, dir2, exit_code>>

(***************************************************************************)
(* Python values                                                           *)
(***************************************************************************)
NoKids == << >>
NoMap == << >>

Mk(t, n, s, kids, m, sl) ==
  [t |-> t, n |-> n, s |-> s, kids |-> kids, m |-> m, sl |-> sl]

StrV(s) == Mk("str", 0, s, NoKids, NoMap, NoMap)
IntV(n) == Mk("int", n, "", NoKids, NoMap, NoMap)
\* bool is a subclass of int: True == 1, False == 0
BoolV(n) == Mk("bool", n, "", NoKids, NoMap, NoMap)
\* a float is named by its position n in the ordering of the doubles (so
\* neighbours are 1 ULP apart); NaN carries s = "nan"
FloatV(n) == Mk("float", n, "", NoKids, NoMap, NoMap)
NaN == Mk("float", 0, "nan", NoKids, NoMap, NoMap)
\* a complex number is a numbers.Number that is not a float
ComplexV(n) == Mk("complex", n, "", NoKids, NoMap, NoMap)
ComplexNaN == Mk("complex", 0, "nan", NoKids, NoMap, NoMap)
NoneV == Mk("NoneType", 0, "", NoKids, NoMap, NoMap)
\* bytes(n): n zero bytes
BytesV(n) == Mk("bytes", n, "", NoKids, NoMap, NoMap)
\* Bio.Seq.Seq over n letters: its _data is a bytes of length n
SeqV(n) == Mk("Seq", n, "", NoKids, NoMap, NoMap)
\* a class object, as stored under "!type"
TypeV(name) == Mk("type", 0, name, NoKids, NoMap, NoMap)
ListV(kids) == Mk("list", 0, "", kids, NoMap, NoMap)
TupleV(kids) == Mk("tuple", 0, "", kids, NoMap, NoMap)
DictV(m) == Mk("dict", 0, "", NoKids, m, NoMap)
\* a Mapping whose runtime type is not dict
ODictV(m) == Mk("OrderedDict", 0, "", NoKids, m, NoMap)
\* an instance of a dict subclass that defines __call__
CallableDictV(m) == Mk("CallableDict", 0, "", NoKids, m, NoMap)
\* an instance of a user class cls with __dict__ m and slot values sl
ObjV(cls, m, sl) == Mk(cls, 0, "", NoKids, m, sl)
\* numpy array: n = number of rows of a 1-d shape, s = dtype, kids = elements
NdarrayV(dtype, kids) == Mk("ndarray", Len(kids), dtype, kids, NoMap, NoMap)
\* unum.Unum: s = unit, kids = <<the number>>
UnumV(unit, num) == Mk("Unum", 0, unit, <<num>>, NoMap, NoMap)

\* class Repr: an object whose repr() is the given text
Repr(repr_) == Mk("Repr", 0, repr_, NoKids, NoMap, NoMap)

\* mutant of SameType: isinstance(b, type(a)), so that an instance of a
\* subclass of dict has the type of a dict
SameTypeSubclass(a, b) ==
  a.t = b.t \/ (a.t = "dict" /\ b.t \in {"OrderedDict", "CallableDict"})

\* mutant of SameType: any two sequences, or any two mappings, count as
\* the same type (an isinstance test in place of the identity of types)
SameTypeLoose(a, b) ==
  \/ a.t = b.t
  \/ {a.t, b.t} \subseteq {"list", "tuple"}
  \/ {a.t, b.t} \subseteq {"dict", "OrderedDict"}

\* type(a) is type(b)
SameType(a, b) == a.t = b.t

\* mutant of Update: an entry already present is kept (setdefault)
UpdateKeepOld(m1, m2) ==
  [k \in (DOMAIN m1) \cup (DOMAIN m2) |->
     IF k \in DOMAIN m1 THEN m1[k] ELSE m2[k]]

\* m1.update(m2)
Update(m1, m2) ==
  [k \in (DOMAIN m1) \cup (DOMAIN m2) |->
     IF k \in DOMAIN m2 THEN m2[k] ELSE m1[k]]

\* the one-entry mapping {k: v}
One(k, v) == [x \in {k} |-> v]

(***************************************************************************)
(* Classes of the modelled values: what isinstance, callable and hasattr   *)
(* answer for each runtime type                                            *)
(***************************************************************************)
\* isinstance(v, str)
IsStr(v) == v.t = "str"
\* mutant of IsInt: type(v) is int, which a bool is not
IsIntExact(v) == v.t = "int"

\* isinstance(v, int): bool is a subclass of int
IsInt(v) == v.t \in {"int", "bool"}
\* isinstance(v, float)
IsFloat(v) == v.t = "float"
\* isinstance(v, collections.abc.Mapping)
IsMapping(v) == v.t \in {"dict", "OrderedDict", "CallableDict"}
\* isinstance(v, collections.abc.Sequence)
IsSequence(v) == v.t \in {"list", "tuple", "str", "bytes"}
\* mutant of Callable: class objects are not callable
CallableInstancesOnly(v) == v.t \in {"CallableDict", "CubicSpline"}
\* callable(v): class objects, and instances of a class with __call__
\* (scipy's CubicSpline is one)
Callable(v) == v.t \in {"type", "CallableDict", "CubicSpline"}
\* hasattr(v, "__dict__")
HasDict(v) ==
  v.t \in {"ObjA", "ObjB", "ObjD", "ObjG", "Repr", "CubicSpline", "Seq",
           "UnitStructArray", "OrderedDict", "CallableDict", "type"}
\* hasattr(v, "__slots__")
HasSlots(v) == v.t \in {"ObjS", "ObjD"}
\* hasattr(v, "__getstate__")
HasGetstate(v) == v.t = "ObjG"

\* the modelled members of LEAF_TYPES (numbers.Number covers int, bool, float
\* and complex)
LEAF_TYPES ==
  {"Unum", "Seq", "int", "bool", "float", "complex", "UnitStructArray"}

\* mutant of SPECIAL_OBJECTS: every attribute of a spline is compared
SPECIAL_OBJECTS_every_attribute ==
  [ty \in {"CubicSpline", "UnitStructArray"} |->
     IF ty = "CubicSpline" THEN <<"x", "c", "axis", "extra">>
     ELSE <<"struct_array", "units">>]

\* SPECIAL_OBJECTS: declared attributes per registered type
SPECIAL_OBJECTS ==
  [ty \in {"CubicSpline", "UnitStructArray"} |->
     IF ty = "CubicSpline" THEN <<"x", "c", "axis">>
     ELSE <<"struct_array", "units">>]

has_python_vars(obj) == HasDict(obj) \/ HasSlots(obj)

\* mutant of is_leaf: whatever is no container is a leaf
is_leaf_unless_container(value) ==
  IF IsMapping(value) \/ IsSequence(value)
  THEN value.t \in {"bytes", "str"}
  ELSE TRUE

\* mutant of is_leaf: callables and registered leaf types are recognised
\* before the container test
is_leaf_callable_first(value) ==
  \/ Callable(value)
  \/ value.t \in LEAF_TYPES
  \/ IF IsMapping(value) \/ IsSequence(value)
     THEN value.t \in {"bytes", "str"}
     ELSE ~has_python_vars(value)

\* mutant of is_leaf: a string is a container like any other sequence
is_leaf_str_container(value) ==
  /\ ~(IsMapping(value) \/ IsSequence(value))
  /\ (Callable(value) \/ value.t \in LEAF_TYPES \/ ~has_python_vars(value))

\* mutant of is_leaf: the container test is missing
is_leaf_no_container_test(value) ==
  Callable(value) \/ value.t \in LEAF_TYPES \/ ~has_python_vars(value)

is_leaf(value) ==
  IF IsMapping(value) \/ IsSequence(value)
  THEN value.t \in {"bytes", "str"}
  ELSE Callable(value) \/ value.t \in LEAF_TYPES \/ ~has_python_vars(value)

\* obj.__getstate__() of the modelled class ObjG: a copy of its __dict__
getstate(obj) == obj.m

all_vars(obj) ==
  IF HasGetstate(obj) THEN getstate(obj)
  ELSE LET attrs == IF HasDict(obj) THEN obj.m ELSE NoMap
       IN  Update(attrs, IF HasSlots(obj) THEN obj.sl ELSE NoMap)

(***************************************************************************)
(* repr() and elide                                                        *)
(***************************************************************************)
\* the order in which a mapping's keys are listed by repr()
KeyOrder ==
  <<"a", "b", "c", "x", "y", "axis", "struct_array", "units", "extra",
    "!type">>

RECURSIVE Rep(_, _)
\* s * n
Rep(s, n) ==
  IF n = 0 THEN ""
  ELSE LET h == Rep(s, n \div 2)
       IN  IF n % 2 = 0 THEN h \o h ELSE h \o h \o s

RECURSIVE PyRepr(_)
RECURSIVE JoinReprs(_)
RECURSIVE JoinItems(_, _)

\* ", ".join(repr(e) for e in seq)
JoinReprs(seq) ==
  IF Len(seq) = 0 THEN ""
  ELSE IF Len(seq) = 1 THEN PyRepr(seq[1])
  ELSE PyRepr(seq[1]) \o ", " \o JoinReprs(Tail(seq))

\* ", ".join(repr(k) + ": " + repr(m[k]) for k in keys)
JoinItems(keys, m) ==
  IF Len(keys) = 0 THEN ""
  ELSE LET item == "'" \o keys[1] \o "': " \o PyRepr(m[keys[1]])
       IN  IF Len(keys) = 1 THEN item
           ELSE item \o ", " \o JoinItems(Tail(keys), m)

DictRepr(m) ==
  "{" \o JoinItems(SelectSeq(KeyOrder, LAMBDA k : k \in DOMAIN m), m) \o "}"

PyRepr(v) ==
  CASE v.t = "str" -> "'" \o v.s \o "'"
    [] v.t = "int" -> ToString(v.n)
    [] v.t = "bool" -> IF v.n = 1 THEN "True" ELSE "False"
    [] v.t = "float" -> IF v.s = "nan" THEN "nan" ELSE ToString(v.n) \o ".0"
    [] v.t = "complex" ->
         IF v.s = "nan" THEN "(nan+0j)" ELSE "(" \o ToString(v.n) \o "+0j)"
    [] v.t = "NoneType" -> "None"
    [] v.t = "type" -> "<class '" \o v.s \o "'>"
    [] v.t = "list" -> "[" \o JoinReprs(v.kids) \o "]"
    [] v.t = "tuple" ->
         IF Len(v.kids) = 1 THEN "(" \o PyRepr(v.kids[1]) \o ",)"
         ELSE "(" \o JoinReprs(v.kids) \o ")"
    [] v.t = "dict" -> DictRepr(v.m)
    [] v.t = "OrderedDict" -> "OrderedDict(" \o DictRepr(v.m) \o ")"
    [] v.t = "CallableDict" -> DictRepr(v.m)
    [] v.t = "bytes" -> "b'" \o Rep("\\x00", v.n) \o "'"
    [] v.t = "Repr" -> v.s
    [] v.t = "ndarray" -> "array([" \o JoinReprs(v.kids) \o "])"
    [] v.t = "Unum" -> PyRepr(v.kids[1]) \o " [" \o v.s \o "]"
    [] OTHER -> "<" \o v.t \o " object>"

\* default max_len of elide, and the bound used for a type mismatch
ElideDefault == 200
ElideTypeMismatch == 400

\* mutant of elide: a repr of exactly max_len characters is elided too
elide_ge(value, maxlen) ==
  LET repr_ == PyRepr(value)
  IN  IF Len(repr_) >= maxlen
      THEN Repr(SubSeq(repr_, 1, maxlen) \o "...")
      ELSE value

elide(value, maxlen) ==
  LET repr_ == PyRepr(value)
  IN  IF Len(repr_) > maxlen
      THEN Repr(SubSeq(repr_, 1, maxlen) \o "...")
      ELSE value

(***************************************************************************)
(* object_tree                                                             *)
(***************************************************************************)
\* mutant of object_tree: only the top level is materialized
object_tree_top_level(obj) ==
  IF is_leaf(obj) THEN obj
  ELSE IF IsMapping(obj) THEN DictV(obj.m)
  ELSE IF IsSequence(obj) THEN ListV(obj.kids)
  ELSE DictV(Update(all_vars(obj), One("!type", TypeV(obj.t))))

RECURSIVE object_tree(_)
object_tree(obj) ==
  IF is_leaf(obj) THEN obj
  ELSE IF IsMapping(obj)
  THEN DictV([key \in DOMAIN obj.m |-> object_tree(obj.m[key])])
  ELSE IF IsSequence(obj)
  THEN ListV([index \in 1..Len(obj.kids) |-> object_tree(obj.kids[index])])
  ELSE LET attrs == all_vars(obj)
           tree == [key \in DOMAIN attrs |-> object_tree(attrs[key])]
       IN  DictV(Update(tree, One("!type", TypeV(obj.t))))

\* list(obj) for a Sequence: the characters of a string are strings of
\* length one, the elements of a bytes are ints
Elements(obj) ==
  IF obj.t = "str" THEN [i \in 1..Len(obj.s) |-> StrV(SubSeq(obj.s, i, i))]
  ELSE IF obj.t = "bytes" THEN [i \in 1..obj.n |-> IntV(0)]
  ELSE obj.kids

\* list(m.values())
ValuesOf(m) ==
  LET keys == SelectSeq(KeyOrder, LAMBDA k : k \in DOMAIN m)
  IN  [i \in 1..Len(keys) |-> m[keys[i]]]

\* the objects object_tree(obj) calls itself on, in order
SubCalls(obj) ==
  IF is_leaf(obj) THEN << >>
  ELSE IF IsMapping(obj) THEN ValuesOf(obj.m)
  ELSE IF IsSequence(obj) THEN Elements(obj)
  ELSE ValuesOf(all_vars(obj))

\* the object as all_vars(obj) leaves it: attrs is the object's own __dict__
\* (getattr returns it, not a copy), and attrs.update(...) writes the slot
\* values into it; an object without __dict__ gets the fresh default {}
all_vars_effect(obj) ==
  IF HasGetstate(obj) THEN obj
  ELSE IF HasDict(obj)
  THEN [obj EXCEPT !.m = Update(obj.m, IF HasSlots(obj) THEN obj.sl ELSE NoMap)]
  ELSE obj

RECURSIVE object_tree_effect(_)
\* the object graph as object_tree(obj) leaves it
object_tree_effect(obj) ==
  IF is_leaf(obj) THEN obj
  ELSE IF IsMapping(obj)
  THEN [obj EXCEPT !.m = [key \in DOMAIN obj.m |->
                            object_tree_effect(obj.m[key])]]
  ELSE IF IsSequence(obj)
  THEN [obj EXCEPT !.kids = [index \in 1..Len(obj.kids) |->
                               object_tree_effect(obj.kids[index])]]
  ELSE LET after == all_vars_effect(obj)
       IN  [after EXCEPT
              !.m = [key \in DOMAIN after.m |-> object_tree_effect(after.m[key])],
              !.sl = [key \in DOMAIN after.sl |->
                        object_tree_effect(after.sl[key])]]

(***************************************************************************)
(* diff_trees and its comparators                                          *)
(***************************************************************************)
\* float comparison tolerance, in Number of Units in the Last Place
NULP == 0

\* default cutoff of size_tree: 0.1 MB, in hundredths of a MB
DefaultCutoff == 10

\* bool(v)
Truthy(v) ==
  CASE v.t = "NoneType" -> FALSE
    [] v.t \in {"int", "bool", "float", "complex"} -> v.n # 0 \/ v.s = "nan"
    [] v.t = "str" -> v.s # ""
    [] v.t = "bytes" -> v.n # 0
    [] v.t \in {"list", "tuple"} -> Len(v.kids) > 0
    [] v.t \in {"dict", "OrderedDict", "CallableDict"} -> DOMAIN v.m # {}
    [] OTHER -> TRUE

\* mutant of Keep: every sub-diff is stored
KeepAll(subdiff) == TRUE

\* mutant of Keep: "if subdiff is not None:"
KeepNotNone(subdiff) == subdiff # NoneV

\* "if subdiff:": a sub-diff is stored only when it is truthy
Keep(subdiff) == Truthy(subdiff)

\* the tuple (x, y)
Pair(x, y) == TupleV(<<x, y>>)

\* a != b for two leaves that are both str, both int, or of the same type:
\* by value, except that a NaN differs from everything, itself included
PyNe(a, b) ==
  IF a.s = "nan" /\ a.t \in {"float", "complex"} THEN TRUE
  ELSE IF b.s = "nan" /\ b.t \in {"float", "complex"} THEN TRUE
  ELSE <<a.n, a.s, a.kids, a.m, a.sl>> # <<b.n, b.s, b.kids, b.m, b.sl>>

Abs(i) == IF i < 0 THEN -i ELSE i

\* np.isnan(f)
IsNaN(f) == f.s = "nan"

\* np.testing.assert_array_almost_equal_nulp(f1, f2, nulp) passes: floats
\* are numbered in steps of one unit in the last place
WithinNulp(f1, f2, nulp) ==
  ~IsNaN(f1) /\ ~IsNaN(f2) /\ Abs(f1.n - f2.n) <= nulp

\* mutant of compare_floats: a NaN matches nothing, not even a NaN
compare_floats_nan_differs(f1, f2) ==
  IF ~IsNaN(f1) /\ ~IsNaN(f2) /\ Abs(f1.n - f2.n) <= NULP
  THEN FloatV(0)
  ELSE Pair(f1, f2)

\* mutant of compare_floats: only f1 is tested for NaN
compare_floats_isnan_f1(f1, f2) ==
  IF (~IsNaN(f1) /\ ~IsNaN(f2) /\ f1.n = f2.n) \/ IsNaN(f1)
  THEN FloatV(0)
  ELSE IF WithinNulp(f1, f2, NULP) THEN FloatV(0)
  ELSE Pair(f1, f2)

compare_floats(f1, f2) ==
  IF (~IsNaN(f1) /\ ~IsNaN(f2) /\ f1.n = f2.n) \/ (IsNaN(f1) /\ IsNaN(f2))
  THEN FloatV(0)
  ELSE IF WithinNulp(f1, f2, NULP) THEN FloatV(0)
  ELSE Pair(f1, f2)

summarize_array(ndarray) ==
  Repr("array((" \o ToString(ndarray.n) \o ",) " \o ndarray.s \o ")")

\* np.testing.assert_array_equal passes: same numbers, NaN matching NaN
ArrayEqual(array1, array2) ==
  \A i \in 1..Len(array1.kids) :
    LET x == array1.kids[i]
        y == array2.kids[i]
    IN  (IsNaN(x) /\ IsNaN(y)) \/ (~IsNaN(x) /\ ~IsNaN(y) /\ x.n = y.n)

simplify_error_message(message) == elide(Repr(message), ElideDefault)

\* mutant of compare_ndarrays: the float comparison, which broadcasts an
\* array of one element against a longer one, comes before the shape test
compare_ndarrays_dtype_first(array1, array2) ==
  LET n == IF array1.n > array2.n THEN array1.n ELSE array2.n
      at(a, i) == IF Len(a.kids) = 1 THEN a.kids[1] ELSE a.kids[i]
      broadcast == array1.n = array2.n \/ array1.n = 1 \/ array2.n = 1
  IN  IF /\ array1.s = "float64"
         /\ broadcast
         /\ \A i \in 1..n : WithinNulp(at(array1, i), at(array2, i), NULP)
      THEN TupleV(<< >>)
      ELSE IF array1.n # array2.n
      THEN Pair(summarize_array(array1), summarize_array(array2))
      ELSE IF ArrayEqual(array1, array2) THEN TupleV(<< >>)
      ELSE simplify_error_message("Arrays are not equal x: " \o PyRepr(array1)
                                  \o " y: " \o PyRepr(array2))

compare_ndarrays(array1, array2) ==
  IF array1.n # array2.n
  THEN Pair(summarize_array(array1), summarize_array(array2))
  ELSE IF array1.s = "float64"
          /\ \A i \in 1..Len(array1.kids) :
               WithinNulp(array1.kids[i], array2.kids[i], NULP)
  THEN TupleV(<< >>)
  ELSE IF ArrayEqual(array1, array2) THEN TupleV(<< >>)
  ELSE simplify_error_message("Arrays are not equal x: " \o PyRepr(array1)
                              \o " y: " \o PyRepr(array2))

\* a.matchUnits(b) for two Unums of the same unit
matchUnits(a, b) == <<a, b>>

\* mutant of Get: the default is left out, so a missing key reads as None
GetNone(a, key, default) == IF key \in DOMAIN a.m THEN a.m[key] ELSE NoneV

\* a.get(key, default)
Get(a, key, default) == IF key \in DOMAIN a.m THEN a.m[key] ELSE default

\* list(a) + n * [Repr("--")]
Pad(kids, n) == kids \o [i \in 1..n |-> Repr("--")]

RECURSIVE diff_trees(_, _)
diff_trees(a, b) ==
  IF (IsStr(a) /\ IsStr(b)) \/ (IsInt(a) /\ IsInt(b))
  THEN IF PyNe(a, b)
       THEN Pair(elide(a, ElideDefault), elide(b, ElideDefault))
       ELSE NoneV
  ELSE IF ~SameType(a, b)
  THEN Pair(elide(a, ElideTypeMismatch), elide(b, ElideTypeMismatch))
  ELSE IF IsFloat(a) THEN compare_floats(a, b)
  ELSE IF a.t = "ndarray" THEN compare_ndarrays(a, b)
  ELSE IF a.t = "Unum"
  THEN LET ab == matchUnits(a, b)
       IN  diff_trees(ab[1].kids[1], ab[2].kids[1])
  ELSE IF a.t \in DOMAIN SPECIAL_OBJECTS
  THEN LET attrs == SPECIAL_OBJECTS[a.t]
           subdiff == [attr \in {attrs[i] : i \in 1..Len(attrs)} |->
                         diff_trees(a.m[attr], b.m[attr])]
       IN  DictV([attr \in {k \in DOMAIN subdiff : Keep(subdiff[k])} |->
                    subdiff[attr]])
  ELSE IF is_leaf(a)
  THEN IF PyNe(a, b)
       THEN Pair(elide(a, ElideDefault), elide(b, ElideDefault))
       ELSE NoneV
  ELSE IF IsMapping(a)
  THEN LET na == Repr("--")
           nb == Repr("--")
           subdiff == [key \in (DOMAIN a.m) \cup (DOMAIN b.m) |->
                         diff_trees(Get(a, key, na), Get(b, key, nb))]
       IN  DictV([key \in {k \in DOMAIN subdiff : Keep(subdiff[k])} |->
                    subdiff[key]])
  ELSE IF IsSequence(a)
  THEN LET la == Len(a.kids)
           lb == Len(b.kids)
           pa == IF lb > la THEN Pad(a.kids, lb - la) ELSE a.kids
           pb == IF la > lb THEN Pad(b.kids, la - lb) ELSE b.kids
           subdiff == [index \in 1..Len(pa) |-> diff_trees(pa[index], pb[index])]
       IN  ListV(SelectSeq(subdiff, Keep))
  ELSE NoneV

\* the branch of the if / elif chain of diff_trees that a call takes
Branch(a, b) ==
  IF (IsStr(a) /\ IsStr(b)) \/ (IsInt(a) /\ IsInt(b)) THEN "equality"
  ELSE IF ~SameType(a, b) THEN "type"
  ELSE IF IsFloat(a) THEN "float"
  ELSE IF a.t = "ndarray" THEN "ndarray"
  ELSE IF a.t = "Unum" THEN "Unum"
  ELSE IF a.t \in DOMAIN SPECIAL_OBJECTS THEN "special"
  ELSE IF is_leaf(a) THEN "leaf"
  ELSE IF IsMapping(a) THEN "mapping"
  ELSE IF IsSequence(a) THEN "sequence"
  ELSE "else"

\* mutant of SubPairs: the two quantities are compared as they are, without
\* asNumber(), so the call on them repeats itself
SubPairsKeepUnits(a, b) ==
  LET branch == Branch(a, b)
  IN  IF branch = "Unum"
      THEN LET ab == matchUnits(a, b)
           IN  <<(<<ab[1], ab[2]>>)>>
      ELSE IF branch = "special"
      THEN LET attrs == SPECIAL_OBJECTS[a.t]
           IN  [i \in 1..Len(attrs) |-> <<a.m[attrs[i]], b.m[attrs[i]]>>]
      ELSE IF branch = "mapping"
      THEN LET na == Repr("--")
               nb == Repr("--")
               keys == SelectSeq(KeyOrder,
                                 LAMBDA k : k \in (DOMAIN a.m) \cup (DOMAIN b.m))
           IN  [i \in 1..Len(keys) |->
                  <<Get(a, keys[i], na), Get(b, keys[i], nb)>>]
      ELSE IF branch = "sequence"
      THEN LET la == Len(a.kids)
               lb == Len(b.kids)
               pa == IF lb > la THEN Pad(a.kids, lb - la) ELSE a.kids
               pb == IF la > lb THEN Pad(b.kids, la - lb) ELSE b.kids
           IN  [index \in 1..Len(pa) |-> <<pa[index], pb[index]>>]
      ELSE << >>

\* the pairs diff_trees(a, b) calls itself on, in order
SubPairs(a, b) ==
  LET branch == Branch(a, b)
  IN  IF branch = "Unum"
      THEN LET ab == matchUnits(a, b)
           IN  <<(<<ab[1].kids[1], ab[2].kids[1]>>)>>
      ELSE IF branch = "special"
      THEN LET attrs == SPECIAL_OBJECTS[a.t]
           IN  [i \in 1..Len(attrs) |-> <<a.m[attrs[i]], b.m[attrs[i]]>>]
      ELSE IF branch = "mapping"
      THEN LET na == Repr("--")
               nb == Repr("--")
               keys == SelectSeq(KeyOrder,
                                 LAMBDA k : k \in (DOMAIN a.m) \cup (DOMAIN b.m))
           IN  [i \in 1..Len(keys) |->
                  <<Get(a, keys[i], na), Get(b, keys[i], nb)>>]
      ELSE IF branch = "sequence"
      THEN LET la == Len(a.kids)
               lb == Len(b.kids)
               pa == IF lb > la THEN Pad(a.kids, lb - la) ELSE a.kids
               pb == IF la > lb THEN Pad(b.kids, la - lb) ELSE b.kids
           IN  [index \in 1..Len(pa) |-> <<pa[index], pb[index]>>]
      ELSE << >>

\* mutant of GetEffect: a missing key is inserted with the default
\* (setdefault in place of get)
GetInserts(m, key, default) ==
  IF key \in DOMAIN m THEN m ELSE Update(m, One(key, default))

\* the mapping's entries after a.get(key, default): get never inserts
GetEffect(m, key, default) == m

\* mutant of PadEffect: the sentinels are appended to the caller's sequence
\* (a.extend(...) in place of a = list(a) + ...)
PadInPlace(kids, n) == Pad(kids, n)

\* the caller's sequence after "a = list(a) + n * [Repr("--")]": list(a) is
\* a fresh copy and only the local name is rebound
PadEffect(kids, n) == kids

RECURSIVE GetAllEffect(_, _, _)
\* the mapping's entries after a.get(key, default) for each key of keys
GetAllEffect(m, keys, default) ==
  IF keys = {} THEN m
  ELSE LET key == CHOOSE k \in keys : TRUE
       IN  GetAllEffect(GetEffect(m, key, default), keys \ {key}, default)

RECURSIVE diff_trees_effect(_, _)
\* the two operands as diff_trees(a, b) leaves them
diff_trees_effect(a, b) ==
  IF (IsStr(a) /\ IsStr(b)) \/ (IsInt(a) /\ IsInt(b)) THEN <<a, b>>
  ELSE IF ~SameType(a, b) THEN <<a, b>>
  ELSE IF IsFloat(a) \/ a.t = "ndarray" THEN <<a, b>>
  ELSE IF a.t = "Unum"
  THEN LET ab == matchUnits(a, b)
           sub == diff_trees_effect(ab[1].kids[1], ab[2].kids[1])
       IN  <<[a EXCEPT !.kids = <<sub[1]>>], [b EXCEPT !.kids = <<sub[2]>>]>>
  ELSE IF a.t \in DOMAIN SPECIAL_OBJECTS
  THEN LET attrs == SPECIAL_OBJECTS[a.t]
           names == {attrs[i] : i \in 1..Len(attrs)}
           sub == [attr \in names |-> diff_trees_effect(a.m[attr], b.m[attr])]
       IN  <<[a EXCEPT !.m = [k \in DOMAIN a.m |->
                                IF k \in names THEN sub[k][1] ELSE a.m[k]]],
             [b EXCEPT !.m = [k \in DOMAIN b.m |->
                                IF k \in names THEN sub[k][2] ELSE b.m[k]]]>>
  ELSE IF is_leaf(a) THEN <<a, b>>
  ELSE IF IsMapping(a)
  THEN LET na == Repr("--")
           nb == Repr("--")
           keys == (DOMAIN a.m) \cup (DOMAIN b.m)
           ma == GetAllEffect(a.m, keys, na)
           mb == GetAllEffect(b.m, keys, nb)
           sub == [key \in keys |->
                     diff_trees_effect(Get(a, key, na), Get(b, key, nb))]
       IN  <<[a EXCEPT !.m = [k \in DOMAIN ma |-> sub[k][1]]],
             [b EXCEPT !.m = [k \in DOMAIN mb |-> sub[k][2]]]>>
  ELSE IF IsSequence(a)
  THEN LET la == Len(a.kids)
           lb == Len(b.kids)
           pa == IF lb > la THEN Pad(a.kids, lb - la) ELSE a.kids
           pb == IF la > lb THEN Pad(b.kids, la - lb) ELSE b.kids
           ca == IF lb > la THEN PadEffect(a.kids, lb - la) ELSE a.kids
           cb == IF la > lb THEN PadEffect(b.kids, la - lb) ELSE b.kids
           sub == [index \in 1..Len(pa) |->
                     diff_trees_effect(pa[index], pb[index])]
       IN  <<[a EXCEPT !.kids = [i \in 1..Len(ca) |-> sub[i][1]]],
             [b EXCEPT !.kids = [i \in 1..Len(cb) |-> sub[i][2]]]>>
  ELSE <<a, b>>

(***************************************************************************)
(* size_tree.  A size is a float number of MB that is a whole number of     *)
(* bytes divided by 2**20; it is held as that number of bytes, so that the  *)
(* sums are exact as they are in floating point.  A cutoff is held in       *)
(* hundredths of a MB.                                                      *)
(***************************************************************************)
\* 2**20 bytes
MB == 1048576

\* a float holding a size: n / 2**20 MB
SizeV(n) == Mk("float", n, "/2**20", NoKids, NoMap, NoMap)
\* a float read back from two decimals: n / 100
HundredthsV(n) == Mk("float", n, "/100", NoKids, NoMap, NoMap)

\* sys.getsizeof(o), in bytes, as a 64-bit CPython answers
getsizeof(o) ==
  CASE o.t = "bytes" -> 33 + o.n
    [] o.t = "str" -> 49 + Len(o.s)
    [] o.t \in {"int", "bool"} -> 28
    [] o.t = "float" -> 24
    [] o.t = "complex" -> 32
    [] o.t = "NoneType" -> 16
    [] o.t = "list" -> 56 + 8 * Len(o.kids)
    [] o.t = "tuple" -> 40 + 8 * Len(o.kids)
    [] o.t \in {"dict", "OrderedDict", "CallableDict"} ->
         IF DOMAIN o.m = {} THEN 64 ELSE 232
    [] o.t = "ndarray" -> 112 + 8 * Len(o.kids)
    [] o.t = "type" -> 1064
    [] OTHER -> 48

\* get_size(o): sys.getsizeof(o) / 2**20, held in bytes
get_size(o) == getsizeof(o)

\* size > cutoff
Exceeds(size, c) == size * 100 > c * MB

\* "{:.2f}".format(size) read back as a float, in hundredths: the nearest
\* hundredth, a tie going to the even one
Formatted(size) ==
  LET q == (size * 100) \div MB
      r == (size * 100) % MB
  IN  IF 2 * r < MB THEN q
      ELSE IF 2 * r > MB THEN q + 1
      ELSE IF q % 2 = 0 THEN q ELSE q + 1

\* subsizes[0]
Total(subsizes) == subsizes.kids[1].n

\* the inner function return_val
return_val(total, value, c) ==
  IF Exceeds(total, c) /\ Truthy(value)
  THEN TupleV(<<SizeV(total), value>>)
  ELSE TupleV(<<SizeV(total)>>)

\* mutant of Listed: every entry is listed
ListedAlways(entry_size, c) == TRUE

\* "if entry_size > cutoff:": the entry goes into the breakdown
Listed(entry_size, c) == Exceeds(entry_size, c)

\* mutant of Counted: only a listed entry is added to the total
CountedIfListed(entry_size, c) ==
  IF Exceeds(entry_size, c) THEN entry_size ELSE 0

\* "total_size += entry_size": what an entry adds to the total, which is
\* outside the test against the cutoff
Counted(entry_size, c) == entry_size

\* the breakdown entry: formatted, or (formatted, subsizes[1])
EntryVal(entry_size, subsizes) ==
  LET formatted == HundredthsV(Formatted(entry_size))
  IN  IF Len(subsizes.kids) = 1 THEN formatted
      ELSE TupleV(<<formatted, subsizes.kids[2]>>)

RECURSIVE SumSeq(_)
SumSeq(seq) == IF Len(seq) = 0 THEN 0 ELSE Head(seq) + SumSeq(Tail(seq))

\* the keys of a mapping in iteration order
KeysOf(m) == SelectSeq(KeyOrder, LAMBDA k : k \in DOMAIN m)

RECURSIVE size_tree(_, _)
size_tree(o, c) ==
  LET size == get_size(o)
  IN  IF o.t = "Unum"
      THEN LET unit == DictV(One(o.s, IntV(1)))
           IN  TupleV(<<SizeV(size + Total(size_tree(unit, DefaultCutoff))
                              + get_size(o.kids[1]))>>)
      ELSE IF o.t = "Seq"
      THEN TupleV(<<SizeV(size + get_size(BytesV(o.n)))>>)
      ELSE IF o.t = "UnitStructArray"
      THEN LET units == Total(size_tree(o.m["units"], DefaultCutoff))
               struct_array == o.m["struct_array"]
               n_entries == Len(struct_array.kids)
           IN  TupleV(<<SizeV(size + units
                                + IF n_entries # 0
                                  THEN get_size(struct_array.kids[1]) * n_entries
                                  ELSE 0)>>)
      ELSE IF o.t \in DOMAIN SPECIAL_OBJECTS
      THEN LET attrs == SPECIAL_OBJECTS[o.t]
               subsizes == [i \in 1..Len(attrs) |-> size_tree(o.m[attrs[i]], c)]
               listed == {attrs[i] : i \in {j \in 1..Len(attrs) :
                                              Listed(Total(subsizes[j]), c)}}
               index == [attr \in listed |->
                           CHOOSE i \in 1..Len(attrs) : attrs[i] = attr]
               sizes == [attr \in listed |->
                           EntryVal(Total(subsizes[index[attr]]),
                                    subsizes[index[attr]])]
               total == size + SumSeq([i \in 1..Len(attrs) |->
                                         Counted(Total(subsizes[i]), c)])
           IN  return_val(total, DictV(sizes), c)
      ELSE IF is_leaf(o) THEN TupleV(<<SizeV(size)>>)
      ELSE IF IsMapping(o)
      THEN LET keys == KeysOf(o.m)
               subsizes == [key \in DOMAIN o.m |-> size_tree(o.m[key], c)]
               entry_size == [key \in DOMAIN o.m |->
                                Total(subsizes[key]) + get_size(StrV(key))]
               listed == {key \in DOMAIN o.m : Listed(entry_size[key], c)}
               sizes == [key \in listed |->
                           EntryVal(entry_size[key], subsizes[key])]
               total_size == size + SumSeq([i \in 1..Len(keys) |->
                                              Counted(entry_size[keys[i]], c)])
           IN  return_val(total_size, DictV(sizes), c)
      ELSE IF IsSequence(o)
      THEN LET values == Elements(o)
               subsizes == [i \in 1..Len(values) |-> size_tree(values[i], c)]
               listed == SelectSeq([i \in 1..Len(values) |-> i],
                                   LAMBDA i : Listed(Total(subsizes[i]), c))
               sizes == [j \in 1..Len(listed) |->
                           EntryVal(Total(subsizes[listed[j]]),
                                    subsizes[listed[j]])]
               total_size == size + SumSeq([i \in 1..Len(values) |->
                                              Counted(Total(subsizes[i]), c)])
           IN  return_val(total_size, ListV(sizes), c)
      ELSE TupleV(<<SizeV(size)>>)

(***************************************************************************)
(* The report and the command line: pprint_diffs, diff_files, list_pickles, *)
(* diff_dirs and __main__.  A text is held as the sequence of its lines.    *)
(***************************************************************************)
\* the width argument of pprint_diffs
PrintWidth == 160

\* the exit status for "differences found"
ExitDifferent == 3

\* the text t1 followed by the text t2: the first line of t2 continues the
\* last line of t1
Glue(t1, t2) ==
  SubSeq(t1, 1, Len(t1) - 1) \o <<t1[Len(t1)] \o t2[1]>> \o Tail(t2)

RECURSIVE JoinLines(_, _)
\* (",\n" + " " * indent).join(items), the items being texts
JoinLines(items, indent) ==
  IF Len(items) = 1 THEN items[1]
  ELSE LET front == JoinLines(SubSeq(items, 1, Len(items) - 1), indent)
       IN  Glue(front, <<",">>)
             \o Glue(<<Rep(" ", indent)>>, items[Len(items)])

\* sorted(m): the keys of a mapping in ascending order
SortedKeys(m) ==
  SelectSeq(<<"!type", "a", "axis", "b", "c", "extra", "struct_array",
              "units", "x", "y">>, LAMBDA k : k \in DOMAIN m)

RECURSIVE pformat(_, _, _)
\* pprint.pformat(object, width=PrintWidth), for the part of object written
\* at column indent with allowance columns kept free after it: a repr that
\* fits is written on one line; a dict, list or tuple that does not fit is
\* written one item per line; anything else is written on one line (the
\* strings of the modelled data hold no white space to break at)
pformat(object, indent, allowance) ==
  LET rep == PyRepr(object)
      max_width == PrintWidth - indent - allowance
  IN  IF Len(rep) <= max_width THEN <<rep>>
      ELSE IF object.t = "dict"
      THEN LET keys == SortedKeys(object.m)
               items == [i \in 1..Len(keys) |->
                           Glue(<<"'" \o keys[i] \o "': ">>,
                                pformat(object.m[keys[i]],
                                        indent + 1 + Len(keys[i]) + 4,
                                        IF i = Len(keys) THEN allowance + 1
                                        ELSE 1))]
           IN  Glue(Glue(<<"{">>, JoinLines(items, indent + 1)), <<"}">>)
      ELSE IF object.t \in {"list", "tuple"}
      THEN LET open == IF object.t = "list" THEN "[" ELSE "("
               endchar == IF object.t = "list" THEN "]"
                          ELSE IF Len(object.kids) = 1 THEN ",)" ELSE ")"
               items == [i \in 1..Len(object.kids) |->
                           pformat(object.kids[i], indent + 1,
                                   IF i = Len(object.kids)
                                   THEN allowance + Len(endchar) ELSE 1)]
           IN  Glue(Glue(<<open>>, JoinLines(items, indent + 1)), <<endchar>>)
      ELSE <<rep>>

\* line.isspace() or line == ""
Blank(line) == line = Rep(" ", Len(line))

RECURSIVE strip(_)
\* text.strip().splitlines(): the lines of the text without the blank lines
\* at its two ends
strip(text) ==
  IF Len(text) = 0 THEN text
  ELSE IF Blank(text[1]) THEN strip(Tail(text))
  ELSE IF Blank(text[Len(text)]) THEN strip(SubSeq(text, 1, Len(text) - 1))
  ELSE text

\* mutant of pprint_diffs: the lines are counted whatever diffs is
pprint_diffs_always_counts(diffs) ==
  Len(strip(pformat(diffs, 0, 0)))

\* pprint_diffs(diffs): the line count it returns
pprint_diffs(diffs) ==
  IF Truthy(diffs)
  THEN LET diff_lines == pformat(diffs, 0, 0)
       IN  Len(strip(diff_lines))
  ELSE 0

\* load_tree(path): path stands for the object pickled in the file
load_tree(path) == object_tree(path)

diff_files(path1, path2) ==
  LET tree1 == load_tree(path1)
      tree2 == load_tree(path2)
      diffs == diff_trees(tree1, tree2)
  IN  pprint_diffs(diffs)

\* a directory entry that is a directory itself
SubDir == Mk("dir", 0, "", NoKids, NoMap, NoMap)

\* entry.is_file()
is_file(entry) == entry.t # "dir"

\* name.endswith(suffix)
endswith(name, suffix) ==
  /\ Len(name) >= Len(suffix)
  /\ SubSeq(name, Len(name) - Len(suffix) + 1, Len(name)) = suffix

\* mutant of list_pickles: every regular file is listed
list_pickles_any_file(directory) ==
  [name \in {n \in DOMAIN directory : is_file(directory[n])} |->
     directory[name]]

\* list_pickles(directory): file name -> path, the path standing for the
\* object pickled in the file
list_pickles(directory) ==
  [name \in {n \in DOMAIN directory :
               is_file(directory[n]) /\ endswith(n, ".cPickle")} |->
     directory[name]]

\* the file names a directory can hold, in the order list_pickles sorts
\* them when the modification times are equal
FileNames == <<"a.cPickle", "b.cPickle", "c.cPickle", "notes.txt">>

\* mutant of OnlyIn: the files of the second directory alone go unnoticed
OnlyInNothing(pickles2, pickles1) == {}

\* pickles2.keys() - pickles1.keys()
OnlyIn(pickles2, pickles1) == (DOMAIN pickles2) \ (DOMAIN pickles1)

RECURSIVE CountLoop(_, _, _)
\* the loop of diff_dirs over pickles1.items(): what it adds to count
CountLoop(names, pickles1, pickles2) ==
  IF Len(names) = 0 THEN 0
  ELSE LET name == Head(names)
           here == IF name \in DOMAIN pickles2
                   THEN diff_files(pickles1[name], pickles2[name])
                   ELSE 1
       IN  here + CountLoop(Tail(names), pickles1, pickles2)

diff_dirs(d1, d2) ==
  LET pickles1 == list_pickles(d1)
      pickles2 == list_pickles(d2)
      names == SelectSeq(FileNames, LAMBDA n : n \in DOMAIN pickles1)
      only_in_dir2 == OnlyIn(pickles2, pickles1)
  IN  CountLoop(names, pickles1, pickles2) + Cardinality(only_in_dir2)

\* mutant of ExitStatus: the count itself is the exit status
ExitStatusIsCount(diff_count) == diff_count

\* 3 if diff_count else 0
ExitStatus(diff_count) == IF diff_count # 0 THEN ExitDifferent ELSE 0

(***************************************************************************)
(* The values the operations are applied to                                *)
(***************************************************************************)
\* the longest list or tuple that is enumerated
MaxLen == 2

\* a string whose repr (with its quotes) is one character over ElideDefault
LongStr == Rep("x", ElideDefault - 1)
\* a string whose repr is one character over ElideTypeMismatch
HugeStr == Rep("y", ElideTypeMismatch - 1)

SeqsUpTo(S, n) == UNION {[1..i -> S] : i \in 0..n}
Maps(K, S) == UNION {[D -> S] : D \in SUBSET K}

Atoms ==
  {StrV(""), StrV("a"), StrV("--"), StrV(LongStr), StrV(HugeStr),
   IntV(0), IntV(1), BoolV(1), FloatV(0), FloatV(1), NaN, NoneV,
   ComplexV(1), ComplexNaN, TypeV("ObjA"), BytesV(0), BytesV(2)}

Kids0 == {IntV(0), StrV(""), StrV("--"), NoneV, ComplexNaN}

Containers1 ==
  {ListV(k) : k \in SeqsUpTo(Kids0, MaxLen)}
  \cup {TupleV(k) : k \in SeqsUpTo({IntV(0), StrV("--"), ComplexNaN}, MaxLen)}
  \cup {DictV(m) : m \in Maps({"a", "b"}, Kids0)}
  \cup {ODictV(m) : m \in Maps({"a"}, {IntV(0), StrV("--")})}
  \cup {CallableDictV(m) : m \in Maps({"a"}, {IntV(0)})}

Objects ==
  {ObjV("ObjA", m, NoMap) :
     m \in Maps({"x", "!type"}, {IntV(0), ListV(<<StrV("--")>>)})}
  \cup {ObjV("ObjB", m, NoMap) :
          m \in Maps({"x"}, {IntV(0), IntV(1), ComplexNaN})}
  \cup {ObjV("ObjS", NoMap, sl) : sl \in [{"x"} -> {IntV(0), IntV(1)}]}
  \cup {ObjV("ObjD", m, sl) :
          m \in Maps({"y"}, {IntV(0)}), sl \in [{"x"} -> {IntV(1)}]}
  \cup {ObjV("ObjG", m, NoMap) :
          m \in Maps({"x"}, {IntV(0), IntV(1), ComplexNaN})}

Kids1 ==
  {IntV(0), ListV(<<IntV(0)>>), DictV(One("a", StrV("--"))),
   ObjV("ObjA", One("x", IntV(0)), NoMap)}

Containers2 ==
  {ListV(k) : k \in SeqsUpTo(Kids1, MaxLen)}
  \cup {DictV(m) : m \in Maps({"a", "b"}, Kids1)}

Specials ==
  {UnumV("mol", FloatV(0)), UnumV("mol", FloatV(1)), UnumV("mol", IntV(1)),
   NdarrayV("float64", <<FloatV(0)>>), NdarrayV("float64", <<FloatV(1)>>),
   NdarrayV("float64", <<NaN>>), NdarrayV("float64", <<FloatV(0), FloatV(1)>>),
   NdarrayV("float64", <<FloatV(0), FloatV(0)>>),
   NdarrayV("int64", <<IntV(0)>>)}
  \cup {ObjV("CubicSpline",
             [k \in {"x", "c", "axis", "extra"} |->
                IF k = "x" THEN x ELSE IF k = "extra" THEN e ELSE IntV(0)],
             NoMap) :
          x \in {FloatV(0), FloatV(1)}, e \in {IntV(0), IntV(1)}}

Values == Atoms \cup Containers1 \cup Objects \cup Containers2 \cup Specials

\* the objects size_tree is applied to: leaves of 28 bytes to 0.2 MB,
\* containers of them, and the specially handled types
SizedLeaves ==
  {IntV(0), BytesV(0), BytesV(105000), BytesV(131039), BytesV(210000)}

SizedKids ==
  {BytesV(105000), ListV(<<IntV(0)>>), ListV(<<BytesV(105000)>>),
   DictV(One("a", BytesV(210000)))}

SizedSpecials ==
  {UnumV("mol", FloatV(1)), SeqV(105000),
   ObjV("UnitStructArray",
        [k \in {"struct_array", "units"} |->
           IF k = "units" THEN DictV(One("a", StrV("a")))
           ELSE NdarrayV("float64", <<FloatV(0), FloatV(1)>>)],
        NoMap),
   ObjV("ObjA", One("x", BytesV(210000)), NoMap)}
  \cup {ObjV("CubicSpline",
             [k \in {"x", "c", "axis", "extra"} |->
                IF k = "x" THEN x ELSE IF k = "c" THEN c ELSE IntV(0)],
             NoMap) :
          x \in {BytesV(0), BytesV(105000)},
          c \in {BytesV(0), ListV(<<BytesV(210000)>>)}}

SizedValues ==
  SizedLeaves \cup SizedSpecials
  \cup {ListV(k) : k \in SeqsUpTo(SizedLeaves, MaxLen)}
  \cup {DictV(m) : m \in Maps({"a", "b"}, SizedLeaves)}
  \cup {ListV(k) : k \in SeqsUpTo(SizedKids, MaxLen)}
  \cup {TupleV(<<k>>) : k \in SizedSpecials}
  \cup {DictV(m) : m \in Maps({"a"}, SizedKids \cup SizedSpecials)}

\* the cutoff arguments size_tree is called with, in hundredths of a MB
Cutoffs == {0, DefaultCutoff, 2 * DefaultCutoff}

\* the objects pickled in the compared files
FileData ==
  {IntV(0), IntV(1), ComplexNaN, DictV(One("a", StrV(LongStr))),
   DictV(One("a", StrV(HugeStr)))}

\* the directories: every pickle name is absent, a file or a directory, and
\* a file that is no pickle may lie next to them
Dirs ==
  {d \in Maps({FileNames[i] : i \in 1..Len(FileNames)},
              {IntV(0), IntV(1), DictV(One("a", StrV(HugeStr))), SubDir}) :
     "notes.txt" \in DOMAIN d => d["notes.txt"] = IntV(0)}

\* the max_len arguments elide is called with
ElideLens == {0, 1, 4, ElideDefault, ElideTypeMismatch}

(***************************************************************************)
(* The operations                                                          *)
(***************************************************************************)
Init ==
  /\ va \in Values
  /\ vb = NoneV
  /\ call = "load1"
  /\ ret = NoneV
  /\ max_len = ElideDefault
  /\ stack = << >>
  /\ calls = 0
  /\ depth = 0
  /\ printed = 0
  /\ cutoff = DefaultCutoff
  /\ dir1 = NoMap
  /\ dir2 = NoMap
  /\ exit_code = -1

\* a second operand is loaded
LoadSecond ==
  /\ call = "load1"
  /\ vb' \in Values
  /\ call' = "load2"
  /\ UNCHANGED <<va, ret, max_len, walkVars, sizeVars, mainVars>>

ObjectTree ==
  /\ call = "load1"
  /\ ret' = object_tree(va)
  /\ va' = object_tree_effect(va)
  /\ call' = "object_tree"
  /\ UNCHANGED <<vb, max_len, walkVars, sizeVars, mainVars>>

Elide ==
  /\ call = "load1"
  /\ \E ml \in ElideLens :
       /\ max_len' = ml
       /\ ret' = elide(va, ml)
  /\ call' = "elide"
  /\ UNCHANGED <<va, vb, walkVars, sizeVars, mainVars>>

IsLeaf ==
  /\ call = "load1"
  /\ ret' = BoolV(IF is_leaf(va) THEN 1 ELSE 0)
  /\ call' = "is_leaf"
  /\ UNCHANGED <<va, vb, max_len, walkVars, sizeVars, mainVars>>

DiffTrees ==
  /\ call = "load2"
  /\ ret' = diff_trees(va, vb)
  /\ va' = diff_trees_effect(va, vb)[1]
  /\ vb' = diff_trees_effect(va, vb)[2]
  /\ call' = "diff_trees"
  /\ UNCHANGED <<max_len, walkVars, sizeVars, mainVars>>

Next == LoadSecond \/ ObjectTree \/ Elide \/ IsLeaf \/ DiffTrees

Spec == Init /\ [][Next]_vars

(***************************************************************************)
(* object_tree, one recursive call at a time                               *)
(***************************************************************************)
\* object_tree(va) has been called
WalkInit ==
  /\ va \in Values
  /\ vb = NoneV
  /\ call = "visiting"
  /\ ret = NoneV
  /\ max_len = ElideDefault
  /\ stack = <<va>>
  /\ calls = 0
  /\ depth = 0
  /\ printed = 0
  /\ cutoff = DefaultCutoff
  /\ dir1 = NoMap
  /\ dir2 = NoMap
  /\ exit_code = -1

\* the pending call at the top of the stack runs up to its own recursive
\* calls, which become pending in its place
Visit ==
  /\ call = "visiting"
  /\ stack # << >>
  /\ stack' = SubCalls(Head(stack)) \o Tail(stack)
  /\ UNCHANGED <<va, vb, call, ret, max_len, calls, depth, printed, sizeVars,
                 mainVars>>

\* no call is pending: the outermost call returns the tree
Return ==
  /\ call = "visiting"
  /\ stack = << >>
  /\ ret' = object_tree(va)
  /\ va' = object_tree_effect(va)
  /\ call' = "object_tree"
  /\ UNCHANGED <<vb, max_len, walkVars, sizeVars, mainVars>>

WalkNext == Visit \/ Return

\* the interpreter runs the next statement whenever there is one
WalkSpec == WalkInit /\ [][WalkNext]_vars /\ WF_vars(Visit) /\ WF_vars(Return)

(***************************************************************************)
(* diff_trees, one recursive call at a time                                *)
(***************************************************************************)
\* trees as load_tree returns them
Materialized == {object_tree(x) : x \in Objects \cup Containers2 \cup Specials}

\* the operands of the step-wise runs: raw values and trees
DiffWalkValues ==
  {IntV(0), IntV(1), BoolV(1), StrV("--"), FloatV(0), NaN, NoneV,
   ComplexNaN}
  \cup {TupleV(k) : k \in SeqsUpTo({IntV(0), StrV("--")}, MaxLen)}
  \cup {ODictV(m) : m \in Maps({"a"}, {IntV(0), StrV("--")})}
  \cup {DictV(m) : m \in Maps({"x"}, {IntV(0), ComplexNaN})}
  \cup Objects \cup Containers2 \cup Specials
  \cup Materialized

\* the call counter stops at MaxCalls, more calls than any run on
\* DiffWalkValues makes
MaxCalls == 32

\* diff_trees(va, vb) has been called
DiffWalkInit ==
  /\ va \in DiffWalkValues
  /\ vb \in DiffWalkValues
  /\ call = "diffing"
  /\ ret = NoneV
  /\ max_len = ElideDefault
  /\ stack = <<[a |-> va, b |-> vb, level |-> 1]>>
  /\ calls = 0
  /\ depth = 0
  /\ printed = 0
  /\ cutoff = DefaultCutoff
  /\ dir1 = NoMap
  /\ dir2 = NoMap
  /\ exit_code = -1

\* the pending call at the top of the stack runs up to its own recursive
\* calls, which become pending in its place; the last branch prints
\* "value not considered by `diff_trees`"
DiffVisit ==
  /\ call = "diffing"
  /\ stack # << >>
  /\ calls < MaxCalls
  /\ LET top == Head(stack)
         subs == SubPairs(top.a, top.b)
     IN  /\ stack' = [i \in 1..Len(subs) |->
                        [a |-> subs[i][1], b |-> subs[i][2],
                         level |-> top.level + 1]] \o Tail(stack)
         /\ calls' = calls + 1
         /\ depth' = IF top.level > depth THEN top.level ELSE depth
         /\ printed' = IF Branch(top.a, top.b) = "else"
                       THEN printed + 1 ELSE printed
  /\ UNCHANGED <<va, vb, call, ret, max_len, sizeVars, mainVars>>

\* no call is pending: the outermost call returns the diff
DiffReturn ==
  /\ call = "diffing"
  /\ stack = << >>
  /\ ret' = diff_trees(va, vb)
  /\ va' = diff_trees_effect(va, vb)[1]
  /\ vb' = diff_trees_effect(va, vb)[2]
  /\ call' = "diff_trees"
  /\ UNCHANGED <<max_len, walkVars, sizeVars, mainVars>>

DiffWalkNext == DiffVisit \/ DiffReturn

\* the interpreter runs the next statement whenever there is one
DiffWalkSpec ==
  DiffWalkInit /\ [][DiffWalkNext]_vars
    /\ WF_vars(DiffVisit) /\ WF_vars(DiffReturn)

(***************************************************************************)
(* The size profiler                                                       *)
(***************************************************************************)
SizeInit ==
  /\ va \in SizedValues
  /\ vb = NoneV
  /\ call = "load1"
  /\ ret = NoneV
  /\ max_len = ElideDefault
  /\ stack = << >>
  /\ calls = 0
  /\ depth = 0
  /\ printed = 0
  /\ cutoff = DefaultCutoff
  /\ dir1 = NoMap
  /\ dir2 = NoMap
  /\ exit_code = -1

SizeTree ==
  /\ call = "load1"
  /\ \E c \in Cutoffs :
       /\ cutoff' = c
       /\ ret' = size_tree(va, c)
  /\ call' = "size_tree"
  /\ UNCHANGED <<va, vb, max_len, walkVars, mainVars>>

SizeNext == SizeTree

SizeSpec == SizeInit /\ [][SizeNext]_vars

(***************************************************************************)
(* The command line                                                        *)
(***************************************************************************)
\* the two PATH arguments name two files, or two directories
MainInit ==
  /\ max_len = ElideDefault
  /\ stack = << >>
  /\ calls = 0
  /\ depth = 0
  /\ printed = 0
  /\ cutoff = DefaultCutoff
  /\ ret = NoneV
  /\ exit_code = -1
  /\ \/ /\ call = "files"
        /\ va \in FileData
        /\ vb \in FileData
        /\ dir1 = NoMap
        /\ dir2 = NoMap
     \/ /\ call = "dirs"
        /\ va = NoneV
        /\ vb = NoneV
        /\ dir1 \in Dirs
        /\ dir2 \in Dirs

\* os.path.isfile(path1): the two files are diffed and the process exits
MainFiles ==
  /\ call = "files"
  /\ LET diff_count == diff_files(va, vb)
     IN  /\ ret' = IntV(diff_count)
         /\ exit_code' = ExitStatus(diff_count)
  /\ call' = "exit after diff_files"
  /\ UNCHANGED <<va, vb, max_len, walkVars, sizeVars, dir1, dir2>>

\* otherwise the two directories are diffed and the process exits
MainDirs ==
  /\ call = "dirs"
  /\ LET diff_count == diff_dirs(dir1, dir2)
     IN  /\ ret' = IntV(diff_count)
         /\ exit_code' = ExitStatus(diff_count)
  /\ call' = "exit after diff_dirs"
  /\ UNCHANGED <<va, vb, max_len, walkVars, sizeVars, dir1, dir2>>

MainNext == MainFiles \/ MainDirs

MainSpec == MainInit /\ [][MainNext]_vars

(***************************************************************************)
(* Properties                                                              *)
(***************************************************************************)
\* the falsy values diff_trees returns: None, 0.0, (), {} and []
FalsyForms == {NoneV, FloatV(0), TupleV(<< >>), DictV(NoMap), ListV(<< >>)}

\* a reported leaf pair
IsPair(d) == d.t = "tuple" /\ Len(d.kids) = 2

RECURSIVE SwappedShape(_, _)
\* d and e have the same keys and lengths at every level, and every leaf
\* pair of d is the pair of e with its two operands exchanged
SwappedShape(d, e) ==
  IF IsPair(d)
  THEN IsPair(e) /\ d.kids[1] = e.kids[2] /\ d.kids[2] = e.kids[1]
  ELSE IF d.t = "dict"
  THEN /\ e.t = "dict"
       /\ DOMAIN d.m = DOMAIN e.m
       /\ \A k \in DOMAIN d.m : SwappedShape(d.m[k], e.m[k])
  ELSE IF d.t = "list"
  THEN /\ e.t = "list"
       /\ Len(d.kids) = Len(e.kids)
       /\ \A i \in 1..Len(d.kids) : SwappedShape(d.kids[i], e.kids[i])
  ELSE d.t = "Repr" /\ e.t = "Repr"

\* C1: diff_trees is symmetric: diff_trees(a, b) is falsy iff
\* diff_trees(b, a) is, and when truthy the two results have the same keys
\* and list lengths at every level with the operands of each leaf pair
\* exchanged.
C1_Symmetric ==
  call = "diff_trees" =>
    LET rev == diff_trees(vb, va)
    IN  /\ Truthy(ret) <=> Truthy(rev)
        /\ Truthy(ret) => SwappedShape(ret, rev)

\* two different mappings were diffed and a leaf pair sits under a key
C1_Witness ==
  /\ call = "diff_trees"
  /\ va # vb
  /\ ret.t = "dict"
  /\ \E k \in DOMAIN ret.m : IsPair(ret.m[k]) /\ ret.m[k].kids[1] # ret.m[k].kids[2]

\* C2: diff_trees is reflexive: diff_trees(A, A) is falsy for every tree A.
C2_Reflexive == (call = "diff_trees" /\ va = vb) => ~Truthy(ret)

RECURSIVE NoFalsyStored(_)
\* no falsy sub-diff is stored under a key or in a list, at any depth
NoFalsyStored(d) ==
  IF IsPair(d) THEN TRUE
  ELSE IF d.t = "dict"
  THEN \A k \in DOMAIN d.m : Truthy(d.m[k]) /\ NoFalsyStored(d.m[k])
  ELSE IF d.t = "list"
  THEN \A i \in 1..Len(d.kids) : Truthy(d.kids[i]) /\ NoFalsyStored(d.kids[i])
  ELSE TRUE

RECURSIVE HasFinding(_)
\* the diff holds a differing leaf (a pair or an array message), possibly
\* under keys and indexes
HasFinding(d) ==
  IF IsPair(d) \/ d.t = "Repr" THEN TRUE
  ELSE IF d.t = "dict" THEN \E k \in DOMAIN d.m : HasFinding(d.m[k])
  ELSE IF d.t = "list" THEN \E i \in 1..Len(d.kids) : HasFinding(d.kids[i])
  ELSE FALSE

\* C3: diff_trees returns one of the falsy values None, 0.0, (), {}, []
\* exactly when it reports no differing leaf, key or index and a truthy
\* value otherwise, and no falsy sub-diff is stored at any depth.
C3_Truthiness ==
  call = "diff_trees" =>
    /\ Truthy(ret) <=> ret \notin FalsyForms
    /\ Truthy(ret) <=> HasFinding(ret)
    /\ NoFalsyStored(ret)

\* two nested trees were diffed that agree in one child and differ in another
C3_Witness ==
  /\ call = "diff_trees"
  /\ va.t = "list" /\ vb.t = "list"
  /\ Len(va.kids) = 2 /\ Len(vb.kids) = 2
  /\ va.kids[1] = vb.kids[1] /\ va.kids[1].t \in {"list", "dict"}
  /\ Len(ret.kids) = 1

\* out is what elide returns for value and maxlen: the value itself, or a
\* placeholder showing the first maxlen characters of its repr and "..."
ElidedAs(value, out, maxlen) ==
  IF Len(PyRepr(value)) <= maxlen
  THEN out = value
  ELSE out.t = "Repr" /\ PyRepr(out) = SubSeq(PyRepr(value), 1, maxlen) \o "..."

\* the sentinel standing for a missing key or index
IsMissing(v) == v.t = "Repr" /\ PyRepr(v) = "--"

\* C4: for two mappings of the same type the keys of the diff are exactly
\* the keys of the union whose sub-diff (against the missing sentinel where
\* absent) is truthy; a key with equal values on both sides never appears,
\* and no key outside the union appears.
C4_KeyUnion ==
  (call = "diff_trees" /\ IsMapping(va) /\ SameType(va, vb)) =>
    LET keys == (DOMAIN va.m) \cup (DOMAIN vb.m)
    IN  /\ ret.t = "dict"
        /\ DOMAIN ret.m \subseteq keys
        /\ DOMAIN ret.m =
             {k \in keys : Truthy(diff_trees(Get(va, k, Repr("--")),
                                             Get(vb, k, Repr("--"))))}
        /\ \A k \in (DOMAIN va.m) \cap (DOMAIN vb.m) :
             va.m[k] = vb.m[k] => k \notin DOMAIN ret.m

\* C5: a key present in exactly one of two same-type mappings always
\* appears in the diff, as the pair of the (possibly elided) real value and
\* the sentinel that displays as --, the sentinel on the side lacking the
\* key; whatever the real value, None, "", 0 and "--" included.
C5_MissingSentinel ==
  (call = "diff_trees" /\ IsMapping(va) /\ SameType(va, vb)) =>
    /\ \A k \in (DOMAIN va.m) \ (DOMAIN vb.m) :
         /\ k \in DOMAIN ret.m
         /\ IsPair(ret.m[k])
         /\ ElidedAs(va.m[k], ret.m[k].kids[1], ElideTypeMismatch)
         /\ IsMissing(ret.m[k].kids[2])
    /\ \A k \in (DOMAIN vb.m) \ (DOMAIN va.m) :
         /\ k \in DOMAIN ret.m
         /\ IsPair(ret.m[k])
         /\ IsMissing(ret.m[k].kids[1])
         /\ ElidedAs(vb.m[k], ret.m[k].kids[2], ElideTypeMismatch)

\* a key holding None on one side only, and a key holding "--" on the other
\* side only, were diffed
C5_Witness ==
  /\ call = "diff_trees"
  /\ va.t = "dict" /\ vb.t = "dict"
  /\ DOMAIN va.m = {"a"} /\ DOMAIN vb.m = {"b"}
  /\ va.m["a"] = NoneV /\ vb.m["b"] = StrV("--")
  /\ DOMAIN ret.m = {"a", "b"}

\* C6: for two sequences of the same type and unequal length, every index
\* past the shorter one contributes the pair of the real element and the
\* missing sentinel, indexes whose elements are equal contribute nothing,
\* and the diff is never falsy.
C6_LengthMismatch ==
  (/\ call = "diff_trees"
   /\ va.t \in {"list", "tuple"}
   /\ SameType(va, vb)
   /\ Len(va.kids) # Len(vb.kids)) =>
    LET la == Len(va.kids)
        lb == Len(vb.kids)
        lo == IF la < lb THEN la ELSE lb
        extra == IF la < lb THEN lb - la ELSE la - lb
        common == {i \in 1..lo : Truthy(diff_trees(va.kids[i], vb.kids[i]))}
    IN  /\ ret.t = "list"
        /\ Truthy(ret)
        /\ Len(ret.kids) = Cardinality(common) + extra
        /\ \A j \in 1..extra :
             LET d == ret.kids[Cardinality(common) + j]
             IN  /\ IsPair(d)
                 /\ IF la > lb
                    THEN /\ ElidedAs(va.kids[lo + j], d.kids[1], ElideTypeMismatch)
                         /\ IsMissing(d.kids[2])
                    ELSE /\ IsMissing(d.kids[1])
                         /\ ElidedAs(vb.kids[lo + j], d.kids[2], ElideTypeMismatch)
        /\ \A i \in 1..lo : va.kids[i] = vb.kids[i] => i \notin common

\* both str, or both int (bool included): the pairs compared by equality
\* before the types are looked at
SameLeafFamily(a, b) == (IsStr(a) /\ IsStr(b)) \/ (IsInt(a) /\ IsInt(b))

\* C7 as stated: whenever the runtime types of a and b differ, diff_trees
\* returns a truthy result.
C7_TypeMismatchTruthy ==
  (call = "diff_trees" /\ va.t # vb.t) => Truthy(ret)

\* C7 as amended: when the runtime types differ, the result is the pair of
\* the two values elided at 400 characters, hence truthy, unless both are
\* strings or both are integers (a bool against an int): these are compared
\* by equality alone, and the result is falsy when they are equal and the
\* pair elided at 200 characters when they are not.
C7_TypeMismatchReported ==
  (call = "diff_trees" /\ va.t # vb.t) =>
    IF SameLeafFamily(va, vb)
    THEN IF va.n = vb.n /\ va.s = vb.s
         THEN ret = NoneV
         ELSE /\ IsPair(ret)
              /\ ElidedAs(va, ret.kids[1], ElideDefault)
              /\ ElidedAs(vb, ret.kids[2], ElideDefault)
    ELSE /\ IsPair(ret)
         /\ ElidedAs(va, ret.kids[1], ElideTypeMismatch)
         /\ ElidedAs(vb, ret.kids[2], ElideTypeMismatch)

\* a list was diffed against a tuple with the same elements
C7_Witness ==
  /\ call = "diff_trees"
  /\ va.t = "list" /\ vb.t = "tuple"
  /\ va.kids = vb.kids /\ Len(va.kids) > 0
  /\ IsPair(ret)

\* C8: elide returns the value itself when its repr has at most max_len
\* characters, and otherwise a placeholder whose repr is the first max_len
\* characters of that repr followed by "...", max_len + 3 characters in
\* all; the two sides of a reported leaf pair are elided each on its own.
C8_Elide ==
  /\ call = "elide" =>
       /\ ElidedAs(va, ret, max_len)
       /\ Len(PyRepr(va)) > max_len => Len(PyRepr(ret)) = max_len + 3
  /\ (call = "diff_trees" /\ IsStr(va) /\ IsStr(vb) /\ va # vb) =>
       /\ IsPair(ret)
       /\ ElidedAs(va, ret.kids[1], ElideDefault)
       /\ ElidedAs(vb, ret.kids[2], ElideDefault)

\* elide cut a repr of more than 200 characters down to 200 and "..."
C8_Witness ==
  /\ call = "elide"
  /\ max_len = ElideDefault
  /\ Len(PyRepr(va)) > max_len
  /\ ret.t = "Repr"

RECURSIVE IsTree(_)
\* every node is a leaf, a plain dict or a plain list
IsTree(node) ==
  \/ is_leaf(node)
  \/ node.t = "dict" /\ \A k \in DOMAIN node.m : IsTree(node.m[k])
  \/ node.t = "list" /\ \A i \in 1..Len(node.kids) : IsTree(node.kids[i])

\* C9: every node of object_tree(obj) is a leaf, a plain dict or a plain
\* list; a leaf input is returned as it is, a mapping yields a dict with
\* the same keys, and a sequence other than a string yields a list of the
\* same length whose elements are the materialized elements in order.
C9_TreeShape ==
  call = "object_tree" =>
    /\ IsTree(ret)
    /\ va.t \in {"str", "int", "bool", "float", "complex", "NoneType", "type",
                 "ndarray", "Unum"} => ret = va
    /\ va.t \in {"dict", "OrderedDict"} =>
         ret.t = "dict" /\ DOMAIN ret.m = DOMAIN va.m
    /\ va.t \in {"list", "tuple"} =>
         /\ ret.t = "list"
         /\ Len(ret.kids) = Len(va.kids)
         /\ \A i \in 1..Len(va.kids) : ret.kids[i] = object_tree(va.kids[i])

\* a tuple holding elements was materialized
C9_Witness ==
  /\ call = "object_tree"
  /\ va.t = "tuple"
  /\ Len(va.kids) = 2
  /\ ret.t = "list"

\* neither a leaf, a mapping nor a sequence
IsGeneric(obj) == ~is_leaf(obj) /\ ~IsMapping(obj) /\ ~IsSequence(obj)

\* C10 as stated: for a generic object the keys of the tree are the
\* attribute names of all_vars(obj) plus "!type", which holds type(obj) and
\* is no attribute name, so every attribute is kept and the tree has one
\* key more than the object has attributes; a mapping receives no "!type".
C10_TypeTagNeverCollides ==
  call = "object_tree" =>
    /\ IsGeneric(va) =>
         LET attrs == all_vars(va)
         IN  /\ ret.t = "dict"
             /\ DOMAIN ret.m = (DOMAIN attrs) \cup {"!type"}
             /\ ret.m["!type"] = TypeV(va.t)
             /\ "!type" \notin DOMAIN attrs
             /\ \A k \in DOMAIN attrs : ret.m[k] = object_tree(attrs[k])
             /\ Cardinality(DOMAIN ret.m) = Cardinality(DOMAIN attrs) + 1
    /\ IsMapping(va) => DOMAIN ret.m = DOMAIN va.m

\* C10 as amended: the keys are the attribute names plus "!type", which
\* holds type(obj); every attribute not itself named "!type" is kept, and
\* the tree has one key more than the object has attributes unless an
\* attribute is named "!type", whose value the type then replaces; a
\* mapping receives no "!type".
C10_TypeTag ==
  call = "object_tree" =>
    /\ IsGeneric(va) =>
         LET attrs == all_vars(va)
         IN  /\ ret.t = "dict"
             /\ DOMAIN ret.m = (DOMAIN attrs) \cup {"!type"}
             /\ ret.m["!type"] = TypeV(va.t)
             /\ \A k \in (DOMAIN attrs) \ {"!type"} :
                  ret.m[k] = object_tree(attrs[k])
             /\ Cardinality(DOMAIN ret.m) =
                  Cardinality(DOMAIN attrs)
                  + (IF "!type" \in DOMAIN attrs THEN 0 ELSE 1)
    /\ IsMapping(va) => DOMAIN ret.m = DOMAIN va.m

\* an object with an attribute named "!type" beside another was materialized
C10_Witness ==
  /\ call = "object_tree"
  /\ IsGeneric(va)
  /\ DOMAIN all_vars(va) = {"x", "!type"}
  /\ ret.m["!type"] = TypeV(va.t)

C12_InputsUnchanged == [][call' = "diff_trees" => va' = va /\ vb' = vb]_vars

\* C12 witness: two sequences of different lengths were diffed (the shorter
\* one was padded), or two mappings one of which lacks a key of the other
C12_Witness ==
  /\ call = "diff_trees"
  /\ \/ /\ va.t = "list" /\ vb.t = "list"
        /\ Len(va.kids) < Len(vb.kids)
        /\ ret.t = "list" /\ Len(ret.kids) = Len(vb.kids)
     \/ /\ va.t = "dict" /\ vb.t = "dict"
        /\ DOMAIN va.m # DOMAIN vb.m

\* C13: object_tree terminates on every finite acyclic object graph: every
\* pending recursive call is eventually made and the tree is returned; a
\* string is a leaf, so its characters (strings themselves) are never visited
C13_Terminates == <>(call = "object_tree" /\ stack = << >>)

\* C13 witness: the tree of a list holding a string of several characters
\* was returned
C13_Witness ==
  /\ call = "object_tree"
  /\ stack = << >>
  /\ va.t = "list"
  /\ \E i \in 1..Len(va.kids) : va.kids[i].t = "str" /\ Len(va.kids[i].s) > 1
  /\ ret.t = "list"
  /\ Len(ret.kids) = Len(va.kids)

\* C14: is_leaf is decided by container-ness first: a mapping or sequence
\* is a leaf exactly when it is a text or byte string, whatever else it is;
\* any other value is a leaf exactly when it is callable, or of a registered
\* leaf type, or has neither __dict__ nor __slots__
C14_LeafClassification ==
  call = "is_leaf" =>
    IF IsMapping(va) \/ IsSequence(va)
    THEN ret = BoolV(1) <=> va.t \in {"str", "bytes"}
    ELSE ret = BoolV(1) <=>
           (Callable(va) \/ va.t \in LEAF_TYPES
              \/ ~(HasDict(va) \/ HasSlots(va)))

\* C14 witness: a mapping that is callable was classified as a composite
C14_Witness ==
  /\ call = "is_leaf"
  /\ IsMapping(va)
  /\ Callable(va)
  /\ ret = BoolV(0)

RECURSIVE Reported(_)
\* the reported (two-decimal) sizes, in hundredths, of the entries of a
\* breakdown at every depth
Reported(breakdown) ==
  LET entries == IF breakdown.t = "dict"
                 THEN {breakdown.m[k] : k \in DOMAIN breakdown.m}
                 ELSE {breakdown.kids[i] : i \in 1..Len(breakdown.kids)}
  IN  UNION {IF e.t = "tuple"
             THEN {e.kids[1].n} \cup Reported(e.kids[2])
             ELSE {e.n} : e \in entries}

\* the reported sizes in a result of size_tree
ReportedIn(result) ==
  IF Len(result.kids) = 2 THEN Reported(result.kids[2]) ELSE {}

RECURSIVE NaiveTotal(_)
\* the size of o summed without any cutoff: its own baseline plus the
\* totals of its children, plus each key's baseline for a mapping; the
\* specially handled leaves add what their branch of size_tree names
NaiveTotal(o) ==
  LET own == getsizeof(o)
  IN  CASE o.t = "Unum" ->
             own + NaiveTotal(DictV(One(o.s, IntV(1)))) + getsizeof(o.kids[1])
        [] o.t = "Seq" -> own + getsizeof(BytesV(o.n))
        [] o.t = "UnitStructArray" ->
             own + NaiveTotal(o.m["units"])
               + Len(o.m["struct_array"].kids)
                   * (IF Len(o.m["struct_array"].kids) = 0 THEN 0
                      ELSE getsizeof(o.m["struct_array"].kids[1]))
        [] o.t = "CubicSpline" ->
             own + NaiveTotal(o.m["x"]) + NaiveTotal(o.m["c"])
               + NaiveTotal(o.m["axis"])
        [] o.t \in {"dict", "OrderedDict", "CallableDict"} ->
             own + SumSeq([i \in 1..Len(KeysOf(o.m)) |->
                             NaiveTotal(o.m[KeysOf(o.m)[i]])
                               + getsizeof(StrV(KeysOf(o.m)[i]))])
        [] o.t \in {"list", "tuple"} ->
             own + SumSeq([i \in 1..Len(o.kids) |-> NaiveTotal(o.kids[i])])
        [] OTHER -> own

\* C15 as stated: no breakdown entry at any depth of size_tree(obj, cutoff)
\* has a reported (two-decimal) size less than or equal to the cutoff
C15_ReportedAboveCutoff ==
  call = "size_tree" => \A h \in ReportedIn(ret) : h > cutoff

\* C15 amended: an element or entry is in the breakdown exactly when its
\* unrounded size is greater than the cutoff, and the size reported for an
\* entry at any depth, being rounded to two decimals, is never less than
\* the cutoff (it can be equal to it)
C15_ListedAboveCutoff ==
  call = "size_tree" =>
    /\ \A h \in ReportedIn(ret) : h >= cutoff
    /\ va.t = "list" =>
         LET over == {i \in 1..Len(va.kids) :
                        NaiveTotal(va.kids[i]) * 100 > cutoff * MB}
         IN  IF over = {} THEN Len(ret.kids) = 1
             ELSE Len(ret.kids) = 2 /\ Len(ret.kids[2].kids) = Cardinality(over)
    /\ va.t = "dict" =>
         LET over == {k \in DOMAIN va.m :
                        (NaiveTotal(va.m[k]) + getsizeof(StrV(k))) * 100
                          > cutoff * MB}
         IN  IF over = {} THEN Len(ret.kids) = 1
             ELSE Len(ret.kids) = 2 /\ DOMAIN ret.kids[2].m = over

\* C15 witness: at cutoff 0.1 an element of 0.1002 MB is listed with the
\* reported size 0.10, next to an element that is not listed
C15_Witness ==
  /\ call = "size_tree"
  /\ cutoff = DefaultCutoff
  /\ va.t = "list"
  /\ Len(va.kids) = 2
  /\ Len(ret.kids) = 2
  /\ Len(ret.kids[2].kids) = 1
  /\ cutoff \in ReportedIn(ret)

\* C16: the total of size_tree does not depend on the cutoff: whatever the
\* cutoff, it is the sum made without one (own baseline plus the totals of
\* the children, plus the keys' baselines for a mapping), the entries left
\* out of the breakdown being counted all the same
C16_TotalIsNaiveSum ==
  call = "size_tree" => Total(ret) = NaiveTotal(va)

\* C16 witness: at cutoff 0.2 a list of two elements, both over 0.1 MB, has
\* one of them left out of its breakdown
C16_Witness ==
  /\ call = "size_tree"
  /\ cutoff = 2 * DefaultCutoff
  /\ va.t = "list"
  /\ Len(va.kids) = 2
  /\ \A i \in 1..2 : getsizeof(va.kids[i]) * 100 > DefaultCutoff * MB
  /\ Len(ret.kids) = 2
  /\ Len(ret.kids[2].kids) = 1

RECURSIVE SumOf(_)
\* the sum of the values of a function
SumOf(f) ==
  IF DOMAIN f = {} THEN 0
  ELSE LET x == CHOOSE y \in DOMAIN f : TRUE
       IN  f[x] + SumOf([y \in (DOMAIN f) \ {x} |-> f[y]])

\* the names of the regular files of a directory
FilesOf(d) == {n \in DOMAIN d : d[n].t # "dir"}

\* the names of the regular files of a directory that end in .cPickle
PicklesOf(d) == {n \in FilesOf(d) : endswith(n, ".cPickle")}

\* the number of lines in the printed diff of two pickled objects
PairLines(x, y) ==
  Len(pformat(diff_trees(object_tree(x), object_tree(y)), 0, 0))

\* the pair of pickled objects diffs falsy
PairFalsy(x, y) == ~Truthy(diff_trees(object_tree(x), object_tree(y)))

\* the count C17 states over the names N1 and N2 of the two directories
CountOver(N1, N2) ==
  SumOf([n \in N1 \cap N2 |->
           IF PairFalsy(dir1[n], dir2[n]) THEN 0
           ELSE PairLines(dir1[n], dir2[n])])
    + Cardinality(N1 \ N2) + Cardinality(N2 \ N1)

\* C17 as stated: diff_dirs returns the sum of the diff line counts of the
\* file names present in both directories, plus the number of names only
\* in the first, plus the number of names only in the second
C17_CountsEveryFile ==
  call = "exit after diff_dirs" =>
    ret = IntV(CountOver(FilesOf(dir1), FilesOf(dir2)))

\* C17 amended: the same count, over the names of the regular files that
\* end in .cPickle; every other directory entry is ignored
C17_CountsEveryPickle ==
  call = "exit after diff_dirs" =>
    ret = IntV(CountOver(PicklesOf(dir1), PicklesOf(dir2)))

\* C17 witness: one pickle in both directories with a diff of two lines,
\* one only in the first, one only in the second, and a file that is no
\* pickle only in the first: the count is 4
C17_Witness ==
  /\ call = "exit after diff_dirs"
  /\ \E n \in PicklesOf(dir1) \cap PicklesOf(dir2) :
       PairLines(dir1[n], dir2[n]) = 2
  /\ PicklesOf(dir1) \ PicklesOf(dir2) # {}
  /\ PicklesOf(dir2) \ PicklesOf(dir1) # {}
  /\ "notes.txt" \in (DOMAIN dir1) \ (DOMAIN dir2)
  /\ ret = IntV(4)

\* the exit status and the line count of a pair, as C18 states them: the
\* status is 3 if any difference was counted and 0 otherwise, and the count
\* of a diffed pair of files is 0 exactly when the diff of their trees is
\* falsy, at least 1 when it is truthy
ExitAndLineCount ==
  /\ call \in {"exit after diff_files", "exit after diff_dirs"} =>
       exit_code = (IF ret.n # 0 THEN 3 ELSE 0)
  /\ call = "exit after diff_files" =>
       /\ ret.n = 0 <=> PairFalsy(va, vb)
       /\ ~PairFalsy(va, vb) => ret.n >= 1

\* the exit status is 0 if and only if every compared pair diffs falsy and,
\* for two directories with the names N1 and N2, no name is unmatched
ExitZeroIff(N1, N2) ==
  /\ call = "exit after diff_files" => (exit_code = 0 <=> PairFalsy(va, vb))
  /\ call = "exit after diff_dirs" =>
       (exit_code = 0 <=>
          /\ \A n \in PicklesOf(dir1) \cap PicklesOf(dir2) :
               PairFalsy(dir1[n], dir2[n])
          /\ N1 = N2)

\* C18 as stated: the exit status is 3 if any difference was found and 0
\* otherwise; it is 0 if and only if every compared pair diffs falsy and, in
\* directory mode, no file name is unmatched on either side
C18_ExitCodeEveryFile ==
  ExitAndLineCount /\ ExitZeroIff(FilesOf(dir1), FilesOf(dir2))

\* C18 amended: the same, the unmatched names being those of the regular
\* files that end in .cPickle; a file that is no pickle, or a directory, is
\* never counted as a difference
C18_ExitCodeEveryPickle ==
  ExitAndLineCount /\ ExitZeroIff(PicklesOf(dir1), PicklesOf(dir2))

\* C18 witness: two directories whose common pickles all diff falsy, with
\* a pickle in the second only: the process exits with 3
C18_Witness ==
  /\ call = "exit after diff_dirs"
  /\ PicklesOf(dir1) # {}
  /\ PicklesOf(dir1) \subseteq PicklesOf(dir2)
  /\ PicklesOf(dir2) # PicklesOf(dir1)
  /\ \A n \in PicklesOf(dir1) : PairFalsy(dir1[n], dir2[n])
  /\ ret = IntV(1)
  /\ exit_code = 3

\* C19: for two floats diff_trees returns the falsy 0.0 when they are
\* identical, when both are NaN, or when they are within NULP units in the
\* last place (0 by default: exactly equal), and otherwise the pair
\* (f1, f2) itself, not elided, which is truthy
C19_FloatTolerance ==
  (call = "diff_trees" /\ va.t = "float" /\ vb.t = "float") =>
    IF \/ va.s = "nan" /\ vb.s = "nan"
       \/ va.s # "nan" /\ vb.s # "nan" /\ Abs(va.n - vb.n) <= NULP
    THEN ret = FloatV(0) /\ ~Truthy(ret)
    ELSE ret = TupleV(<<va, vb>>) /\ Truthy(ret)

\* C19 witness: NaN was diffed against NaN and the result is 0.0
C19_Witness ==
  /\ call = "diff_trees"
  /\ va.t = "float" /\ va.s = "nan"
  /\ vb.t = "float" /\ vb.s = "nan"
  /\ ret = FloatV(0)

\* the text "array(shape dtype)" of a one-dimensional array
ShapeSummary(a) ==
  "array((" \o ToString(Len(a.kids)) \o ",) " \o a.s \o ")"

\* C20: two arrays of different shapes diff as the pair of their shape and
\* dtype summaries, in operand order, with no element data in it; the
\* result is truthy whatever the elements are
C20_ShapeMismatch ==
  (/\ call = "diff_trees"
   /\ va.t = "ndarray" /\ vb.t = "ndarray"
   /\ Len(va.kids) # Len(vb.kids)) =>
    /\ ret = TupleV(<<Repr(ShapeSummary(va)), Repr(ShapeSummary(vb))>>)
    /\ Truthy(ret)

\* C20 witness: a float array of one element was diffed against a longer
\* float array every element of which equals it
C20_Witness ==
  /\ call = "diff_trees"
  /\ va.t = "ndarray" /\ vb.t = "ndarray"
  /\ va.s = "float64" /\ vb.s = "float64"
  /\ Len(va.kids) = 1 /\ Len(vb.kids) = 2
  /\ \A i \in 1..2 : vb.kids[i] = va.kids[1]
  /\ ret.t = "tuple" /\ Len(ret.kids) = 2

\* C21: when both values are strings, or both are integers (a bool being
\* one), diff_trees compares them by equality alone: the result is falsy
\* (None) when they are equal and the pair of the two values elided at 200
\* characters when they are not; whether their runtime types are the same
\* plays no part
C21_EqualityBeforeType ==
  (/\ call = "diff_trees"
   /\ \/ va.t = "str" /\ vb.t = "str"
      \/ va.t \in {"int", "bool"} /\ vb.t \in {"int", "bool"}) =>
    IF va.n = vb.n /\ va.s = vb.s
    THEN ret = NoneV /\ ~Truthy(ret)
    ELSE /\ IsPair(ret)
         /\ ElidedAs(va, ret.kids[1], ElideDefault)
         /\ ElidedAs(vb, ret.kids[2], ElideDefault)

\* C21 witness: True was diffed against the int 1, two values of different
\* runtime types, and the result is None
C21_Witness ==
  /\ call = "diff_trees"
  /\ va.t = "bool" /\ vb.t = "int"
  /\ va.n = vb.n
  /\ ret = NoneV

\* C22: when the two values are not both strings and not both integers and
\* their runtime types differ, diff_trees returns exactly the pair of the
\* two values elided at 400 characters and makes no recursive call,
\* whatever the two hold; a mismatch of two leaves of one type is reported
\* as the pair elided at 200 characters
C22_TypeMismatchShortCircuits ==
  call = "diff_trees" =>
    /\ (/\ va.t # vb.t
        /\ ~(va.t = "str" /\ vb.t = "str")
        /\ ~(va.t \in {"int", "bool"} /\ vb.t \in {"int", "bool"})) =>
         /\ IsPair(ret)
         /\ ElidedAs(va, ret.kids[1], ElideTypeMismatch)
         /\ ElidedAs(vb, ret.kids[2], ElideTypeMismatch)
         /\ calls = 1
    /\ (/\ va.t = vb.t
        /\ va.t \in {"str", "int", "bool", "complex", "bytes", "NoneType"}
        /\ <<va.n, va.s>> # <<vb.n, vb.s>>) =>
         /\ IsPair(ret)
         /\ ElidedAs(va, ret.kids[1], ElideDefault)
         /\ ElidedAs(vb, ret.kids[2], ElideDefault)
         /\ calls = 1

\* C22 witness: a mapping was diffed against an instance of a mapping
\* subclass with the same, non-empty entries, in one call
C22_Witness ==
  /\ call = "diff_trees"
  /\ va.t = "dict" /\ vb.t = "OrderedDict"
  /\ va.m = vb.m /\ DOMAIN va.m # {}
  /\ IsPair(ret)
  /\ calls = 1

\* element i of a sequence padded with missing sentinels
PaddedAt(seq, i) == IF i <= Len(seq.kids) THEN seq.kids[i] ELSE Repr("--")

\* C23: for two sequences of the same type the result is the list of the
\* truthy per-index sub-diffs in increasing index order: it has one element
\* per differing index (after padding to equal length), at most
\* max(len(a), len(b)) of them, and nothing stands in for a matching index
C23_SequenceDiff ==
  (/\ call = "diff_trees"
   /\ va.t = vb.t
   /\ va.t \in {"list", "tuple"}) =>
    LET n == IF Len(va.kids) > Len(vb.kids) THEN Len(va.kids)
             ELSE Len(vb.kids)
        sub == [i \in 1..n |->
                  diff_trees(PaddedAt(va, i), PaddedAt(vb, i))]
        differing == {i \in 1..n : Truthy(sub[i])}
    IN  /\ ret.t = "list"
        /\ Len(ret.kids) = Cardinality(differing)
        /\ Len(ret.kids) <= n
        /\ \A j \in 1..Len(ret.kids) : Truthy(ret.kids[j])
        /\ ret.kids = SelectSeq(sub, Truthy)

\* C23 witness: two lists of two elements that match at the first index
\* and differ at the second: the result has the one sub-diff
C23_Witness ==
  /\ call = "diff_trees"
  /\ va.t = "list" /\ vb.t = "list"
  /\ Len(va.kids) = 2 /\ Len(vb.kids) = 2
  /\ va.kids[1] = vb.kids[1]
  /\ va.kids[2] # vb.kids[2]
  /\ Len(ret.kids) = 1
  /\ ret.kids[1] = diff_trees(va.kids[2], vb.kids[2])

\* C24: for two values produced by object_tree no call in the recursion of
\* diff_trees, on nested values and missing sentinels included, reaches the
\* last branch: no pending call will take it and no diagnostic was printed
C24_NoFallThroughOnTrees ==
  (/\ call \in {"diffing", "diff_trees"}
   /\ va \in Materialized
   /\ vb \in Materialized) =>
    /\ printed = 0
    /\ \A i \in 1..Len(stack) : Branch(stack[i].a, stack[i].b) # "else"

\* C24 witness: the trees of two generic objects, one of them with an
\* attribute the other lacks, were diffed in several calls
C24_Witness ==
  /\ call = "diff_trees"
  /\ va \in Materialized
  /\ vb \in Materialized
  /\ va.t = "dict" /\ vb.t = "dict"
  /\ "!type" \in (DOMAIN va.m) \cap (DOMAIN vb.m)
  /\ (DOMAIN va.m) \ (DOMAIN vb.m) # {}
  /\ calls > 2
  /\ printed = 0

\* C25: two values of one runtime type that no branch of diff_trees
\* provides for, such as two raw instances of a plain class, make it print
\* one diagnostic and return None, a falsy result, in a single call,
\* whether their attributes are equal or not
C25_UnanticipatedKinds ==
  (/\ call = "diff_trees"
   /\ va.t = vb.t
   /\ va.t \in {"ObjA", "ObjB", "ObjS", "ObjD", "ObjG"}) =>
    /\ ret = NoneV
    /\ ~Truthy(ret)
    /\ printed = 1
    /\ calls = 1

\* C25 witness: two instances of one plain class with different attribute
\* values were diffed
C25_Witness ==
  /\ call = "diff_trees"
  /\ va.t = "ObjB" /\ vb.t = "ObjB"
  /\ DOMAIN va.m = {"x"} /\ DOMAIN vb.m = {"x"}
  /\ va.m["x"] # vb.m["x"]
  /\ ret = NoneV
  /\ printed = 1

\* the attributes the registry declares for a spline
SplineDeclared == {"x", "c", "axis"}

\* C26: for two splines, diff_trees returns a mapping whose keys are exactly
\* the declared attributes with a truthy sub-diff, each holding that
\* sub-diff; an attribute outside the declared list has no influence, so
\* splines equal on the declared attributes diff as falsy
C26_SpecialObjects ==
  (/\ call = "diff_trees"
   /\ va.t = "CubicSpline" /\ vb.t = "CubicSpline") =>
    /\ ret.t = "dict"
    /\ DOMAIN ret.m =
         {attr \in SplineDeclared : Truthy(diff_trees(va.m[attr], vb.m[attr]))}
    /\ \A attr \in DOMAIN ret.m : ret.m[attr] = diff_trees(va.m[attr], vb.m[attr])
    /\ (\A attr \in SplineDeclared : va.m[attr] = vb.m[attr]) => ~Truthy(ret)

\* C26 witness: two splines that differ in a declared and in an undeclared
\* attribute were diffed, and only the declared one is reported
C26_Witness ==
  /\ call = "diff_trees"
  /\ va.t = "CubicSpline" /\ vb.t = "CubicSpline"
  /\ va.m["x"] # vb.m["x"]
  /\ va.m["extra"] # vb.m["extra"]
  /\ DOMAIN ret.m = {"x"}

\* C26 witness of the falsy case: the splines differ in the undeclared
\* attribute only
C26_WitnessUndeclared ==
  /\ call = "diff_trees"
  /\ va.t = "CubicSpline" /\ vb.t = "CubicSpline"
  /\ va.m["x"] = vb.m["x"]
  /\ va.m["extra"] # vb.m["extra"]
  /\ ~Truthy(ret)

\* the components of a value: elements, mapping values, attributes, the
\* number of a quantity
Parts(v) == v.kids \o ValuesOf(v.m) \o ValuesOf(v.sl)

RECURSIVE Depth(_)
\* the number of levels of a value, 1 for a value without components
Depth(v) ==
  LET parts == Parts(v)
      deeper == {Depth(parts[i]) : i \in 1..Len(parts)}
  IN  IF parts = << >> THEN 1
      ELSE 1 + CHOOSE d \in deeper : \A e \in deeper : e <= d

RECURSIVE NodeCount(_)
\* the number of nodes of a value, itself included
NodeCount(v) ==
  LET parts == Parts(v)
  IN  1 + SumSeq([i \in 1..Len(parts) |-> NodeCount(parts[i])])

RECURSIVE Descendants(_)
\* the strict sub-components of a value
Descendants(v) ==
  LET parts == Parts(v)
  IN  {parts[i] : i \in 1..Len(parts)}
        \cup UNION {Descendants(parts[i]) : i \in 1..Len(parts)}

\* while diff_trees runs, and when it has returned: every pending recursive
\* call is on strict sub-components of the two inputs (or on the missing
\* sentinel on one side), the recursion is no deeper than the deeper input,
\* and no more calls were made than the two inputs have nodes
CallsBounded ==
  call \in {"diffing", "diff_trees"} =>
    LET parts_a == Descendants(va) \cup {Repr("--")}
        parts_b == Descendants(vb) \cup {Repr("--")}
        depth_a == Depth(va)
        depth_b == Depth(vb)
    IN  /\ \A i \in 1..Len(stack) :
             stack[i].level > 1 =>
               /\ stack[i].a \in parts_a
               /\ stack[i].b \in parts_b
               /\ stack[i].a # Repr("--") \/ stack[i].b # Repr("--")
        /\ depth <= (IF depth_a > depth_b THEN depth_a ELSE depth_b)
        /\ calls <= NodeCount(va) + NodeCount(vb)

\* C27: diff_trees terminates on every pair of finite acyclic values: each
\* recursive call is on strict sub-components of its arguments, so the
\* recursion depth never exceeds the larger depth of the two inputs and the
\* number of calls never exceeds the number of nodes of the two inputs, and
\* the diff is eventually returned
C27_Terminates == []CallsBounded /\ <>(call = "diff_trees")

\* C27 witness: the diff of two nested values of different shapes was
\* returned after recursive calls three levels deep, some of them on the
\* missing sentinel
C27_Witness ==
  /\ call = "diff_trees"
  /\ stack = << >>
  /\ depth = 3
  /\ calls > 3
  /\ va.t = "list" /\ vb.t = "list"
  /\ Len(va.kids) # Len(vb.kids)

\* the tree of a generic object: a dict whose "!type" key holds a type
IsGenericTree(tree) ==
  /\ tree.t = "dict"
  /\ "!type" \in DOMAIN tree.m
  /\ tree.m["!type"].t = "type"

\* the entries of a tree other than its type tag
Untagged(tree) == [k \in (DOMAIN tree.m) \ {"!type"} |-> tree.m[k]]

\* C28: the trees of two generic objects with the same attribute names and
\* values but different types diff as the mapping with the single key
\* "!type", holding the pair of the two types; the tree of a generic object
\* against a plain mapping with the same entries diffs with "!type" holding
\* the type and the missing sentinel on the side of the plain mapping
C28_TypeTagShowsOrigin ==
  call = "diff_trees" =>
    /\ (/\ IsGenericTree(va) /\ IsGenericTree(vb)
        /\ va.m["!type"] # vb.m["!type"]
        /\ Untagged(va) = Untagged(vb)) =>
         ret = DictV(One("!type", Pair(va.m["!type"], vb.m["!type"])))
    /\ (/\ IsGenericTree(va)
        /\ vb.t = "dict" /\ vb.m = Untagged(va)) =>
         /\ ret.t = "dict"
         /\ "!type" \in DOMAIN ret.m
         /\ ret.m["!type"] = Pair(va.m["!type"], Repr("--"))
    /\ (/\ IsGenericTree(vb)
        /\ va.t = "dict" /\ va.m = Untagged(vb)) =>
         /\ ret.t = "dict"
         /\ "!type" \in DOMAIN ret.m
         /\ ret.m["!type"] = Pair(Repr("--"), vb.m["!type"])

\* C29: object_tree is idempotent: materializing the tree object_tree
\* returned gives the same tree, with no further "!type" key and no node
\* changed, and changes nothing in it as a side effect
C29_Idempotent ==
  call = "object_tree" =>
    /\ object_tree(ret) = ret
    /\ object_tree_effect(ret) = ret

\* C29 witness: the tree of a list holding a generic object was returned; it
\* is not the input, and the node of the object carries its type
C29_Witness ==
  /\ call = "object_tree"
  /\ va.t = "list"
  /\ ret # va
  /\ \E i \in 1..Len(ret.kids) :
       /\ ret.kids[i].t = "dict"
       /\ "!type" \in DOMAIN ret.kids[i].m
       /\ ret.kids[i].m["!type"] = TypeV("ObjA")

\* two raw values that differ in container type only: a tuple against a
\* list with the same elements, or a mapping of another type against a dict
\* with the same entries
SameButContainerType(x, y) ==
  \/ x.t = "tuple" /\ y.t = "list" /\ x.kids = y.kids
  \/ x.t \in {"OrderedDict", "CallableDict"} /\ y.t = "dict" /\ x.m = y.m

\* C30: two values that differ in container type only materialize to equal
\* trees, a list or a dict without a type tag, whose diff (as diff_files
\* computes it) is falsy, although the diff of the raw values reports the
\* type mismatch
C30_ContainerTypesErased ==
  (/\ call = "diff_trees"
   /\ SameButContainerType(va, vb) \/ SameButContainerType(vb, va)) =>
    /\ object_tree(va) = object_tree(vb)
    /\ object_tree(va).t \in {"list", "dict"}
    /\ "!type" \notin DOMAIN object_tree(va).m
    /\ ~Truthy(diff_trees(object_tree(va), object_tree(vb)))
    /\ ret = Pair(elide(va, ElideTypeMismatch), elide(vb, ElideTypeMismatch))

====
